---- MODULE Spec2Model ----
(***************************************************************************)
(* The cache-draining writer of carbon (lib/carbon/writer.py) as a state   *)
(* machine: the writer thread (writeForever -> writeCachedDataPoints ->    *)
(* optimalWriteOrder), the producers that store into MetricCache and the   *)
(* periodic schema reload.                                                 *)
(*                                                                         *)
(* Time is counted in whole seconds (int(time.time())). `now` is the       *)
(* latest reading of the clock; it moves forward when the writer reads the *)
(* clock or sleeps, to one of the instants of Instants.                    *)
(***************************************************************************)
EXTENDS Integers, Sequences, FiniteSets, TLC

\* ------------------------------------------------------------------ bounds
\* Datapoints the producers store over a run of Spec.
MaxArrivals == 3
\* Datapoints the producers store over a run of SpecCreates.
MaxCreateArrivals == 6
\* Datapoints the producers store over a run of SpecPressure.
MaxPressureArrivals == 5

\* --------------------------------------------------------------- constants
\* writer.py:64   if now - lastCreateInterval >= 60
CREATE_WINDOW == 60
\* writer.py:147  settings.MAX_UPDATES_PER_SECOND
MAX_UPDATES_PER_SECOND == 1
\* writer.py:68   settings.MAX_CREATES_PER_MINUTE, as set in the runs of Spec
FewCreates == 2
\* writer.py:68   settings.MAX_CREATES_PER_MINUTE, as set in the runs of SpecCreates
ManyCreates == 4
\* writer.py:40   settings.MAX_CACHE_SIZE
MAX_CACHE_SIZE == 2

\* Metric names seen by the cache.
Metrics == {"a", "b"}

\* The instants at which the clock is read: the start, the last second of the
\* creation window that starts then, and the first seconds after it.
Instants ==
    {CREATE_WINDOW, 2 * CREATE_WINDOW - 1, 2 * CREATE_WINDOW,
     2 * CREATE_WINDOW + 1, 2 * CREATE_WINDOW + 2}

\* The storage-schemas.conf contents loadStorageSchemas can return, each given
\* by the set of metric names one of its schemas matches.
SchemaSets == {Metrics, Metrics \ {"b"}}

NoUnit == [metric |-> "", datapoints |-> 0, dbFileExists |-> FALSE]

\* No no-schema abort is outstanding.
NoMiss == [metric |-> "", times |-> 0]

VARIABLES
    now,                 \* the latest time.time(), in whole seconds
    cache,               \* MetricCache: metric -> number of queued datapoints (0: no key)
    toArrive,            \* datapoints the producers have yet to store
    fileExists,          \* exists(getFilesystemPath(metric))
    stateBound,          \* whether the global name `state` resolves in writer.py
    schemas,             \* the module global `schemas`
    maxCreates,          \* settings.MAX_CREATES_PER_MINUTE
    lastCreateInterval,  \* module global
    createCount,         \* module global
    pc,                  \* position of the writer thread
    outcome,             \* how the latest writeCachedDataPoints() call ended
    updates,             \* local of writeCachedDataPoints
    lastSecond,          \* local of writeCachedDataPoints
    dataWritten,         \* local of writeCachedDataPoints
    metrics,             \* optimalWriteOrder: the sorted snapshot
    idx,                 \* optimalWriteOrder: position of its for loop in metrics
    unit,                \* the unit the generator yielded last
    emitted,             \* the log and instrumentation calls of the writer's latest step
    createTimes,         \* history: times of the latest whisper.create calls
    windowCreates,       \* history: whisper.create calls since lastCreateInterval was set
    secondCommits,       \* history: commits of this call completed in second lastCommitSecond
    lastCommitSecond,    \* history: int(t2) of the latest commit of this call
    passLog,             \* history: what the current pass did with each metric it reached
    passQuiet,           \* history: no producer has stored since the pass's snapshot
    running,             \* reactor.running
    cacheTooFull,        \* state.cacheTooFull
    missed,              \* history: the metric of the latest no-schema abort while no reload
                         \* has made a schema match it, and how often it aborted (up to 2)
    releases,            \* history: events.cacheSpaceAvailable() calls since cacheTooFull was set
    passEnd,             \* history: how the current pass ended at lines 151-152
    delivered,           \* history: datapoints handed to whisper.update_many so far
    createCalled         \* history: metrics whisper.create has been called for

envVars == <<now, cache, toArrive, fileExists, stateBound, schemas, maxCreates>>
throttleVars == <<lastCreateInterval, createCount>>
loopVars == <<updates, lastSecond, dataWritten>>
genVars == <<metrics, idx, unit>>
histVars == <<createTimes, windowCreates, secondCommits, lastCommitSecond, passLog, passQuiet>>
svcVars == <<running, cacheTooFull>>
tallyVars == <<missed, releases, passEnd, delivered, createCalled>>
auxVars == <<svcVars, tallyVars>>
vars == <<envVars, throttleVars, pc, outcome, loopVars, genVars, emitted, histVars, auxVars>>

\* ----------------------------------------------------------------- helpers
\* The calls the writer makes into carbon.log and carbon.instrumentation.
LogMsg(text) == [call |-> "log.msg", what |-> text, n |-> 0]
LogErr == [call |-> "log.err", what |-> "", n |-> 0]
LogCreates == [call |-> "log.creates", what |-> "", n |-> 0]
LogUpdates == [call |-> "log.updates", what |-> "", n |-> 0]
Increment(counter, by) == [call |-> "instrumentation.increment", what |-> counter, n |-> by]
AppendUpdateTime == [call |-> "instrumentation.append", what |-> "updateTimes", n |-> 0]
\* events.cacheSpaceAvailable()
SpaceAvailable == [call |-> "events.cacheSpaceAvailable", what |-> "", n |-> 0]

\* The orders in which iterating a dict of keys S can list them.
Orders(S) ==
    {s \in [1..Cardinality(S) -> S] : \A i, j \in DOMAIN s : i # j => s[i] # s[j]}

\* MetricCache.counts(): [(metric, len(datapoints))] in the dict's order `order`.
Counts(order) == [i \in DOMAIN order |-> <<order[i], cache[order[i]]>>]

\* list.sort(key=lambda item: item[1], reverse=True): stable, descending by size.
RECURSIVE InsertDescending(_, _)
InsertDescending(item, sorted) ==
    IF sorted = <<>> THEN <<item>>
    ELSE IF Head(sorted)[2] >= item[2]
         THEN <<Head(sorted)>> \o InsertDescending(item, Tail(sorted))
         ELSE <<item>> \o sorted

\* The sort with reverse=True left out: ascending by size.
RECURSIVE InsertAscending(_, _)
InsertAscending(item, sorted) ==
    IF sorted = <<>> THEN <<item>>
    ELSE IF Head(sorted)[2] <= item[2]
         THEN <<Head(sorted)>> \o InsertAscending(item, Tail(sorted))
         ELSE <<item>> \o sorted

RECURSIVE SortAscending(_)
SortAscending(list) ==
    IF list = <<>> THEN <<>>
    ELSE InsertAscending(list[Len(list)], SortAscending(SubSeq(list, 1, Len(list) - 1)))

RECURSIVE SortDescending(_)
SortDescending(list) ==
    IF list = <<>> THEN <<>>
    ELSE InsertDescending(list[Len(list)], SortDescending(SubSeq(list, 1, Len(list) - 1)))

\* The loop test off by one: a cache holding single datapoints counts as empty.
CacheOverOne == \E m \in Metrics : cache[m] > 1

\* `while MetricCache`: the dict is true when it holds a key.
CacheNonEmpty == \E m \in Metrics : cache[m] > 0

\* MetricCache.size: the datapoints held, over all metrics.
RECURSIVE SumOver(_)
SumOver(S) ==
    IF S = {} THEN 0
    ELSE LET m == CHOOSE x \in S : TRUE IN cache[m] + SumOver(S \ {m})

CacheSize == SumOver(Metrics)

\* The size test left out of line 53.
AnySize == TRUE

\* MetricCache.size < CACHE_SIZE_LOW_WATERMARK, the watermark being
\* settings.MAX_CACHE_SIZE * 0.95.
BelowLowWatermark == 100 * CacheSize < 95 * MAX_CACHE_SIZE

\* state.cacheTooFull once the handlers of events.cacheSpaceAvailable have run.
FlagAfterRelease == FALSE

\* now - lastCreateInterval >= 60
WindowElapsed(t, last) == t - last >= CREATE_WINDOW

\* createCount >= settings.MAX_CREATES_PER_MINUTE
ThrottleDenies(count) == count >= maxCreates

\* The increment left out.
CountCreateMissing(count) == count

\* createCount += 1
CountCreate(count) == count + 1

\* updates >= settings.MAX_UPDATES_PER_SECOND
RateLimitReached(u) == u >= MAX_UPDATES_PER_SECOND

\* The latest n entries of a history.
KeepLast(s, n) == IF Len(s) <= n THEN s ELSE SubSeq(s, Len(s) - n + 1, Len(s))

\* The clock readings possible at or after second t.
NotBefore(t) == {u \in Instants : u >= t}

\* -------------------------------------------------------------------- Init
\* The writer module after import, before the writer thread's first step. The
\* files on disk, the schemas loaded and the settings are whatever the
\* installation holds.
InitWriter ==
    /\ now = CREATE_WINDOW
    /\ cache = [m \in Metrics |-> 0]
    /\ lastCreateInterval = 0
    /\ createCount = 0
    /\ pc = "wf_loop"
    /\ outcome = "none"
    /\ updates = 0
    /\ lastSecond = 0
    /\ dataWritten = FALSE
    /\ metrics = <<>>
    /\ idx = 1
    /\ unit = NoUnit
    /\ emitted = {}
    /\ createTimes = <<>>
    /\ windowCreates = 0
    /\ secondCommits = 0
    /\ lastCommitSecond = 0
    /\ passLog = <<>>
    /\ passQuiet = TRUE
    /\ running = TRUE
    /\ cacheTooFull = FALSE
    /\ missed = NoMiss
    /\ releases = 0
    /\ passEnd = "none"
    /\ delivered = 0
    /\ createCalled = {}

Init ==
    /\ InitWriter
    /\ toArrive = MaxArrivals
    /\ fileExists \in [Metrics -> BOOLEAN]
    /\ stateBound \in BOOLEAN
    /\ schemas \in SchemaSets
    /\ maxCreates = FewCreates

\* ------------------------------------------------------------- environment
\* MetricCache.store(metric, datapoint): the datapoint is appended to the
\* metric's list.
Store(m) ==
    /\ toArrive > 0
    /\ cache' = [cache EXCEPT ![m] = @ + 1]
    /\ toArrive' = toArrive - 1
    /\ passQuiet' = FALSE
    /\ UNCHANGED <<now, fileExists, stateBound, schemas, maxCreates>>
    /\ UNCHANGED <<throttleVars, pc, outcome, loopVars, genVars, emitted>>
    /\ UNCHANGED <<createTimes, windowCreates, secondCommits, lastCommitSecond, passLog>>
    /\ UNCHANGED auxVars

\* The reactor stops. writeForever reads reactor.running at line 168 only, so the
\* stop is placed at that read.
ReactorStop ==
    /\ pc = "wf_loop"
    /\ running
    /\ running' = FALSE
    /\ UNCHANGED <<envVars, throttleVars, pc, outcome, loopVars, genVars, emitted, histVars>>
    /\ UNCHANGED <<cacheTooFull, tallyVars>>

\* The producers' side finds the cache full and sets state.cacheTooFull.
CacheFull ==
    /\ ~cacheTooFull
    /\ CacheSize >= MAX_CACHE_SIZE
    /\ cacheTooFull' = TRUE
    /\ releases' = 0
    /\ UNCHANGED <<envVars, throttleVars, pc, outcome, loopVars, genVars, emitted, histVars>>
    /\ UNCHANGED <<running, missed, passEnd, delivered, createCalled>>

\* reloadStorageSchemas(): loadStorageSchemas() returns a schema list.
ReloadOk ==
    /\ \E s \in SchemaSets : schemas' = s
    /\ UNCHANGED <<now, cache, toArrive, fileExists, stateBound, maxCreates>>
    /\ UNCHANGED <<throttleVars, pc, outcome, loopVars, genVars, emitted, histVars>>
    /\ missed' = IF missed.metric \in schemas' THEN NoMiss ELSE missed
    /\ UNCHANGED <<svcVars, releases, passEnd, delivered, createCalled>>

\* The failed reload leaving no schema behind.
ReloadFailClears ==
    /\ emitted' = {LogMsg("Failed to reload storage schemas"), LogErr}
    /\ schemas' = {}
    /\ UNCHANGED <<now, cache, toArrive, fileExists, stateBound, maxCreates>>
    /\ UNCHANGED <<throttleVars, pc, outcome, loopVars, genVars, histVars>>
    /\ UNCHANGED auxVars

\* reloadStorageSchemas(): loadStorageSchemas() raises.
ReloadFail ==
    /\ emitted' = {LogMsg("Failed to reload storage schemas"), LogErr}
    /\ UNCHANGED envVars
    /\ UNCHANGED <<throttleVars, pc, outcome, loopVars, genVars, histVars>>
    /\ UNCHANGED auxVars

\* ----------------------------------------------------------- writer thread
\* The generator and the call are gone: their locals are dropped.
DropLocals ==
    /\ metrics' = <<>>
    /\ idx' = 1
    /\ unit' = NoUnit
    /\ updates' = 0
    /\ lastSecond' = 0
    /\ dataWritten' = FALSE

\* writeForever: `while reactor.running: try: writeCachedDataPoints()`; the call
\* begins with updates = 0, lastSecond = 0.
WriteForeverCall ==
    /\ pc = "wf_loop"
    /\ running
    /\ pc' = "top"
    /\ outcome' = "none"
    /\ updates' = 0
    /\ lastSecond' = 0
    /\ secondCommits' = 0
    /\ lastCommitSecond' = 0
    /\ UNCHANGED <<envVars, throttleVars, dataWritten, genVars>>
    /\ UNCHANGED <<createTimes, windowCreates, passLog, passQuiet>>
    /\ emitted' = {}
    /\ UNCHANGED auxVars

\* writeForever: `while reactor.running` fails and the thread's function returns.
WriteForeverExit ==
    /\ pc = "wf_loop"
    /\ ~running
    /\ pc' = "done"
    /\ emitted' = {}
    /\ UNCHANGED <<envVars, throttleVars, outcome, loopVars, genVars, histVars, auxVars>>

\* `while MetricCache:` holds; dataWritten = False and the for loop asks the
\* generator for its first unit.
LoopEnter ==
    /\ pc = "top"
    /\ CacheNonEmpty
    /\ dataWritten' = FALSE
    /\ pc' = "gen_start"
    /\ UNCHANGED <<envVars, throttleVars, outcome, updates, lastSecond, genVars, histVars>>
    /\ emitted' = {}
    /\ UNCHANGED auxVars

\* `while MetricCache:` fails: writeCachedDataPoints returns to writeForever.
LoopReturn ==
    /\ pc = "top"
    /\ ~CacheNonEmpty
    /\ pc' = "wf_sleep"
    /\ outcome' = "returned"
    /\ DropLocals
    /\ UNCHANGED <<envVars, throttleVars, histVars>>
    /\ emitted' = {}
    /\ UNCHANGED auxVars

\* optimalWriteOrder up to its for loop, with the name `state` resolving:
\* counts(), sort, log.msg, and events.cacheSpaceAvailable() when the flag is set
\* and the cache is under the low watermark.
GenStart ==
    /\ pc = "gen_start"
    /\ stateBound
    /\ \E order \in Orders({m \in Metrics : cache[m] > 0}) :
          metrics' = SortDescending(Counts(order))
    /\ idx' = 1
    /\ pc' = "gen_next"
    /\ IF cacheTooFull /\ BelowLowWatermark
       THEN /\ emitted' = {LogMsg("Sorted cache queues"), SpaceAvailable}
            /\ cacheTooFull' = FlagAfterRelease
            /\ releases' = releases + 1
       ELSE /\ emitted' = {LogMsg("Sorted cache queues")}
            /\ UNCHANGED <<cacheTooFull, releases>>
    /\ passLog' = <<>>
    /\ passQuiet' = TRUE
    /\ passEnd' = "none"
    /\ UNCHANGED <<envVars, throttleVars, outcome, loopVars, unit>>
    /\ UNCHANGED <<createTimes, windowCreates, secondCommits, lastCommitSecond>>
    /\ UNCHANGED <<running, missed, delivered, createCalled>>

\* optimalWriteOrder up to line 53 when the name `state`, which writer.py never
\* imports, does not resolve: NameError leaves the generator and
\* writeCachedDataPoints; writeForever's except clause logs it.
GenStartNameError ==
    /\ pc = "gen_start"
    /\ ~stateBound
    /\ pc' = "wf_sleep"
    /\ outcome' = "NameError"
    /\ emitted' = {LogMsg("Sorted cache queues"), LogErr}
    /\ passLog' = <<>>
    /\ passQuiet' = TRUE
    /\ DropLocals
    /\ UNCHANGED <<envVars, throttleVars>>
    /\ UNCHANGED <<createTimes, windowCreates, secondCommits, lastCommitSecond>>
    /\ passEnd' = "none"
    /\ UNCHANGED <<svcVars, missed, releases, delivered, createCalled>>

\* The metric the generator's for loop is at, and its size in the snapshot.
CurMetric == metrics[idx][1]
CurSize == metrics[idx][2]
AtMetric == pc = "gen_next" /\ idx <= Len(metrics)

\* Line 62: the clock is read for a file-less metric only.
ClockAt(m) == IF fileExists[m] THEN {now} ELSE NotBefore(now)

\* Lines 60-66: the window is reset by a file-less metric once 60 s have elapsed.
WindowResets(m, t) == ~fileExists[m] /\ WindowElapsed(t, lastCreateInterval)

\* Lines 60-68: a file-less metric is denied inside a window whose count is used up.
Denied(m, t) ==
    /\ ~fileExists[m]
    /\ ~WindowElapsed(t, lastCreateInterval)
    /\ ThrottleDenies(CountCreate(createCount))

\* The throttle with the test of line 60 left out: every metric is counted.
ThrottleStepAll(m, t) ==
    /\ now' = t
    /\ lastCreateInterval' = IF WindowResets(m, t) THEN t ELSE lastCreateInterval
    /\ createCount' = IF WindowResets(m, t) THEN 1 ELSE CountCreate(createCount)
    /\ windowCreates' = IF WindowResets(m, t) THEN 0 ELSE windowCreates

\* Lines 60-66: what the throttle's globals become when the loop is at metric m
\* at time t.
ThrottleStep(m, t) ==
    /\ now' = t
    /\ lastCreateInterval' = IF WindowResets(m, t) THEN t ELSE lastCreateInterval
    /\ createCount' = IF fileExists[m] THEN createCount
                      ELSE IF WindowResets(m, t) THEN 1 ELSE CountCreate(createCount)
    /\ windowCreates' = IF WindowResets(m, t) THEN 0 ELSE windowCreates

LogEntry(what, points) ==
    [metric |-> CurMetric, size |-> CurSize, existed |-> fileExists[CurMetric],
     what |-> what, points |-> points]

\* The denial without the pop: the loop continues and the backlog stays.
GenDropKeeps ==
    /\ AtMetric
    /\ \E t \in ClockAt(CurMetric) :
          /\ Denied(CurMetric, t)
          /\ ThrottleStep(CurMetric, t)
    /\ idx' = idx + 1
    /\ passLog' = Append(passLog, LogEntry("dropped", cache[CurMetric]))
    /\ emitted' = {}
    /\ UNCHANGED <<cache, toArrive, fileExists, stateBound, schemas, maxCreates>>
    /\ UNCHANGED <<pc, outcome, loopVars, metrics, unit>>
    /\ UNCHANGED <<createTimes, secondCommits, lastCommitSecond, passQuiet>>
    /\ UNCHANGED auxVars

\* The denial with a log line for the drop.
GenDropLogged ==
    /\ AtMetric
    /\ \E t \in ClockAt(CurMetric) :
          /\ Denied(CurMetric, t)
          /\ ThrottleStep(CurMetric, t)
    /\ cache' = [cache EXCEPT ![CurMetric] = 0]
    /\ idx' = idx + 1
    /\ passLog' = Append(passLog, LogEntry("dropped", cache[CurMetric]))
    /\ emitted' = {LogMsg("dropping datapoints of new metric")}
    /\ UNCHANGED <<toArrive, fileExists, stateBound, schemas, maxCreates>>
    /\ UNCHANGED <<pc, outcome, loopVars, metrics, unit>>
    /\ UNCHANGED <<createTimes, secondCommits, lastCommitSecond, passQuiet>>
    /\ UNCHANGED auxVars

\* Lines 68-76: the throttle denies the metric; its backlog is popped and dropped
\* and the loop continues.
GenDrop ==
    /\ AtMetric
    /\ \E t \in ClockAt(CurMetric) :
          /\ Denied(CurMetric, t)
          /\ ThrottleStep(CurMetric, t)
    /\ cache' = [cache EXCEPT ![CurMetric] = 0]
    /\ idx' = idx + 1
    /\ passLog' = Append(passLog, LogEntry("dropped", cache[CurMetric]))
    /\ UNCHANGED <<toArrive, fileExists, stateBound, schemas, maxCreates>>
    /\ UNCHANGED <<pc, outcome, loopVars, metrics, unit>>
    /\ UNCHANGED <<createTimes, secondCommits, lastCommitSecond, passQuiet>>
    /\ emitted' = {}
    /\ UNCHANGED auxVars

\* Lines 68-76 with the pop raising KeyError, which is passed over: a store()
\* running at that moment holds the metric's list out of the dict; when it
\* completes the list is back, one datapoint longer.
GenDropContended ==
    /\ AtMetric
    /\ toArrive > 0
    /\ \E t \in ClockAt(CurMetric) :
          /\ Denied(CurMetric, t)
          /\ ThrottleStep(CurMetric, t)
    /\ cache' = [cache EXCEPT ![CurMetric] = @ + 1]
    /\ toArrive' = toArrive - 1
    /\ idx' = idx + 1
    /\ passLog' = Append(passLog, LogEntry("dropped", 0))
    /\ passQuiet' = FALSE
    /\ UNCHANGED <<fileExists, stateBound, schemas, maxCreates>>
    /\ UNCHANGED <<pc, outcome, loopVars, metrics, unit>>
    /\ UNCHANGED <<createTimes, secondCommits, lastCommitSecond>>
    /\ emitted' = {}
    /\ UNCHANGED auxVars

\* The contention counted as an error.
GenContentionCounted ==
    /\ AtMetric
    /\ toArrive > 0
    /\ \E t \in ClockAt(CurMetric) :
          /\ ~Denied(CurMetric, t)
          /\ ThrottleStep(CurMetric, t)
    /\ cache' = [cache EXCEPT ![CurMetric] = @ + 1]
    /\ toArrive' = toArrive - 1
    /\ idx' = idx + 1
    /\ emitted' = {LogMsg("MetricCache contention"), Increment("errors", 1)}
    /\ passLog' = Append(passLog, LogEntry("skipped", 0))
    /\ passQuiet' = FALSE
    /\ UNCHANGED <<fileExists, stateBound, schemas, maxCreates>>
    /\ UNCHANGED <<pc, outcome, loopVars, metrics, unit>>
    /\ UNCHANGED <<createTimes, secondCommits, lastCommitSecond>>
    /\ UNCHANGED auxVars

\* Lines 78-82: MetricCache.pop raises KeyError (a store() holds the list, as
\* above); logged, next metric.
GenContention ==
    /\ AtMetric
    /\ toArrive > 0
    /\ \E t \in ClockAt(CurMetric) :
          /\ ~Denied(CurMetric, t)
          /\ ThrottleStep(CurMetric, t)
    /\ cache' = [cache EXCEPT ![CurMetric] = @ + 1]
    /\ toArrive' = toArrive - 1
    /\ idx' = idx + 1
    /\ emitted' = {LogMsg("MetricCache contention")}
    /\ passLog' = Append(passLog, LogEntry("skipped", 0))
    /\ passQuiet' = FALSE
    /\ UNCHANGED <<fileExists, stateBound, schemas, maxCreates>>
    /\ UNCHANGED <<pc, outcome, loopVars, metrics, unit>>
    /\ UNCHANGED <<createTimes, secondCommits, lastCommitSecond>>
    /\ UNCHANGED auxVars

\* The yield with line 96 left out: dataWritten is not set.
GenYieldUnflagged ==
    /\ AtMetric
    /\ cache[CurMetric] > 0
    /\ \E t \in ClockAt(CurMetric) :
          /\ ~Denied(CurMetric, t)
          /\ ThrottleStep(CurMetric, t)
    /\ cache' = [cache EXCEPT ![CurMetric] = 0]
    /\ unit' = [metric |-> CurMetric, datapoints |-> cache[CurMetric],
                dbFileExists |-> fileExists[CurMetric]]
    /\ idx' = idx + 1
    /\ dataWritten' = dataWritten
    /\ pc' = IF fileExists[CurMetric] THEN "commit" ELSE "create"
    /\ passLog' = Append(passLog, LogEntry("yielded", cache[CurMetric]))
    /\ UNCHANGED <<toArrive, fileExists, stateBound, schemas, maxCreates>>
    /\ UNCHANGED <<outcome, updates, lastSecond, metrics>>
    /\ UNCHANGED <<createTimes, secondCommits, lastCommitSecond, passQuiet>>
    /\ emitted' = {}
    /\ UNCHANGED auxVars

\* The yield of a backlog that is read but not popped.
GenYieldKeeps ==
    /\ AtMetric
    /\ cache[CurMetric] > 0
    /\ \E t \in ClockAt(CurMetric) :
          /\ ~Denied(CurMetric, t)
          /\ ThrottleStep(CurMetric, t)
    /\ cache' = cache
    /\ unit' = [metric |-> CurMetric, datapoints |-> cache[CurMetric],
                dbFileExists |-> fileExists[CurMetric]]
    /\ idx' = idx + 1
    /\ dataWritten' = TRUE
    /\ pc' = IF fileExists[CurMetric] THEN "commit" ELSE "create"
    /\ passLog' = Append(passLog, LogEntry("yielded", cache[CurMetric]))
    /\ UNCHANGED <<toArrive, fileExists, stateBound, schemas, maxCreates>>
    /\ UNCHANGED <<outcome, updates, lastSecond, metrics>>
    /\ UNCHANGED <<createTimes, secondCommits, lastCommitSecond, passQuiet>>
    /\ emitted' = {}
    /\ UNCHANGED auxVars

\* Lines 78-84 and 96: the backlog is popped and yielded; the drain loop sets
\* dataWritten and goes on to create the file (line 98) or to commit (line 123).
GenYield ==
    /\ AtMetric
    /\ cache[CurMetric] > 0
    /\ \E t \in ClockAt(CurMetric) :
          /\ ~Denied(CurMetric, t)
          /\ ThrottleStep(CurMetric, t)
    /\ cache' = [cache EXCEPT ![CurMetric] = 0]
    /\ unit' = [metric |-> CurMetric, datapoints |-> cache[CurMetric],
                dbFileExists |-> fileExists[CurMetric]]
    /\ idx' = idx + 1
    /\ dataWritten' = TRUE
    /\ pc' = IF fileExists[CurMetric] THEN "commit" ELSE "create"
    /\ passLog' = Append(passLog, LogEntry("yielded", cache[CurMetric]))
    /\ UNCHANGED <<toArrive, fileExists, stateBound, schemas, maxCreates>>
    /\ UNCHANGED <<outcome, updates, lastSecond, metrics>>
    /\ UNCHANGED <<createTimes, secondCommits, lastCommitSecond, passQuiet>>
    /\ emitted' = {}
    /\ UNCHANGED auxVars

\* The generator's for loop is over: the drain loop's for loop ends.
GenExhausted ==
    /\ pc = "gen_next"
    /\ idx > Len(metrics)
    /\ pc' = "pass_end"
    /\ UNCHANGED <<envVars, throttleVars, outcome, loopVars, genVars, histVars>>
    /\ emitted' = {}
    /\ UNCHANGED auxVars

\* The exception not caught by writeForever: the thread ends.
PolicyMissUncaught ==
    /\ pc = "create"
    /\ unit.metric \notin schemas
    /\ pc' = "done"
    /\ outcome' = "NoSchema"
    /\ emitted' = {LogErr}
    /\ passLog' = [passLog EXCEPT ![Len(passLog)].what = "unmatched"]
    /\ DropLocals
    /\ UNCHANGED <<envVars, throttleVars>>
    /\ UNCHANGED <<createTimes, windowCreates, secondCommits, lastCommitSecond, passQuiet>>
    /\ missed' = [metric |-> unit.metric,
                  times |-> IF missed.metric = unit.metric THEN 2 ELSE 1]
    /\ UNCHANGED <<svcVars, releases, passEnd, delivered, createCalled>>

\* The miss logged and passed over: the pass goes on with the next metric.
PolicyMissSkips ==
    /\ pc = "create"
    /\ unit.metric \notin schemas
    /\ pc' = "gen_next"
    /\ emitted' = {LogErr}
    /\ passLog' = [passLog EXCEPT ![Len(passLog)].what = "unmatched"]
    /\ missed' = [metric |-> unit.metric,
                  times |-> IF missed.metric = unit.metric THEN 2 ELSE 1]
    /\ UNCHANGED <<envVars, throttleVars, outcome, loopVars, genVars>>
    /\ UNCHANGED <<createTimes, windowCreates, secondCommits, lastCommitSecond, passQuiet>>
    /\ UNCHANGED <<svcVars, releases, passEnd, delivered, createCalled>>

\* The unit's batch put back into the cache before the exception is raised.
PolicyMissRequeue ==
    /\ pc = "create"
    /\ unit.metric \notin schemas
    /\ pc' = "wf_sleep"
    /\ outcome' = "NoSchema"
    /\ emitted' = {LogErr}
    /\ passLog' = [passLog EXCEPT ![Len(passLog)].what = "unmatched"]
    /\ DropLocals
    /\ cache' = [cache EXCEPT ![unit.metric] = @ + unit.datapoints]
    /\ UNCHANGED <<now, toArrive, fileExists, stateBound, schemas, maxCreates>>
    /\ UNCHANGED throttleVars
    /\ UNCHANGED <<createTimes, windowCreates, secondCommits, lastCommitSecond, passQuiet>>
    /\ missed' = [metric |-> unit.metric,
                  times |-> IF missed.metric = unit.metric THEN 2 ELSE 1]
    /\ UNCHANGED <<svcVars, releases, passEnd, delivered, createCalled>>

\* Lines 99-108: no schema matches the metric; the exception leaves
\* writeCachedDataPoints and writeForever's except clause logs it.
PolicyMiss ==
    /\ pc = "create"
    /\ unit.metric \notin schemas
    /\ pc' = "wf_sleep"
    /\ outcome' = "NoSchema"
    /\ emitted' = {LogErr}
    /\ passLog' = [passLog EXCEPT ![Len(passLog)].what = "unmatched"]
    /\ DropLocals
    /\ UNCHANGED <<envVars, throttleVars>>
    /\ UNCHANGED <<createTimes, windowCreates, secondCommits, lastCommitSecond, passQuiet>>
    /\ missed' = [metric |-> unit.metric,
                  times |-> IF missed.metric = unit.metric THEN 2 ELSE 1]
    /\ UNCHANGED <<svcVars, releases, passEnd, delivered, createCalled>>

\* Lines 99-116: a schema matches, the directory and the file are made.
CreateOk ==
    /\ pc = "create"
    /\ unit.metric \in schemas
    /\ fileExists' = [fileExists EXCEPT ![unit.metric] = TRUE]
    /\ createTimes' = KeepLast(Append(createTimes, now), maxCreates + 1)
    /\ windowCreates' = windowCreates + 1
    /\ pc' = "commit"
    /\ emitted' = {LogCreates, Increment("creates", 1)}
    /\ UNCHANGED <<now, cache, toArrive, stateBound, schemas, maxCreates>>
    /\ UNCHANGED <<throttleVars, outcome, loopVars, genVars>>
    /\ UNCHANGED <<secondCommits, lastCommitSecond, passLog, passQuiet>>
    /\ createCalled' = createCalled \cup {unit.metric}
    /\ UNCHANGED <<svcVars, missed, releases, passEnd, delivered>>

\* Lines 110-115 with whisper.create or os.chmod raising: nothing catches it
\* inside writeCachedDataPoints; writeForever's except clause logs it. The file
\* may have been left behind or not.
CreateFail ==
    /\ pc = "create"
    /\ unit.metric \in schemas
    /\ \E left \in BOOLEAN : fileExists' = [fileExists EXCEPT ![unit.metric] = left]
    /\ createTimes' = KeepLast(Append(createTimes, now), maxCreates + 1)
    /\ windowCreates' = windowCreates + 1
    /\ pc' = "wf_sleep"
    /\ outcome' = "CreateError"
    /\ emitted' = {LogCreates, LogErr}
    /\ passLog' = [passLog EXCEPT ![Len(passLog)].what = "aborted"]
    /\ DropLocals
    /\ UNCHANGED <<now, cache, toArrive, stateBound, schemas, maxCreates>>
    /\ UNCHANGED <<throttleVars, secondCommits, lastCommitSecond, passQuiet>>
    /\ createCalled' = createCalled \cup {unit.metric}
    /\ UNCHANGED <<svcVars, missed, releases, passEnd, delivered>>

\* Lines 123-148, whisper.update_many returning and t2 read as t: the counters,
\* the log line when settings.LOG_UPDATES is on, and the rate limiter's bookkeeping.
CommitOk ==
    /\ pc = "commit"
    /\ \E t \in NotBefore(now) :
          /\ now' = t
          /\ IF t # lastSecond
             THEN /\ lastSecond' = t
                  /\ updates' = 0
                  /\ pc' = "gen_next"
             ELSE /\ lastSecond' = lastSecond
                  /\ updates' = updates + 1
                  /\ pc' = IF RateLimitReached(updates + 1) THEN "rate_sleep" ELSE "gen_next"
          /\ secondCommits' = IF lastCommitSecond = t THEN secondCommits + 1 ELSE 1
          /\ lastCommitSecond' = t
    /\ \E logUpdates \in BOOLEAN :
          emitted' = {Increment("committedPoints", unit.datapoints), AppendUpdateTime}
                        \cup (IF logUpdates THEN {LogUpdates} ELSE {})
    /\ passLog' = [passLog EXCEPT ![Len(passLog)].what = "committed"]
    /\ UNCHANGED <<cache, toArrive, fileExists, stateBound, schemas, maxCreates>>
    /\ UNCHANGED <<throttleVars, outcome, dataWritten, genVars>>
    /\ UNCHANGED <<createTimes, windowCreates, passQuiet>>
    /\ delivered' = delivered + unit.datapoints
    /\ UNCHANGED <<svcVars, missed, releases, passEnd, createCalled>>

\* The failed batch put back into the cache.
CommitFailRequeue ==
    /\ pc = "commit"
    /\ cache' = [cache EXCEPT ![unit.metric] = @ + unit.datapoints]
    /\ emitted' = {LogErr, Increment("errors", 1)}
    /\ pc' = "gen_next"
    /\ passLog' = [passLog EXCEPT ![Len(passLog)].what = "failed"]
    /\ UNCHANGED <<now, toArrive, fileExists, stateBound, schemas, maxCreates>>
    /\ UNCHANGED <<throttleVars, outcome, loopVars, genVars>>
    /\ UNCHANGED <<createTimes, windowCreates, secondCommits, lastCommitSecond, passQuiet>>
    /\ delivered' = delivered + unit.datapoints
    /\ UNCHANGED <<svcVars, missed, releases, passEnd, createCalled>>

\* Lines 123-130, whisper.update_many raising: log.err, 'errors' + 1, next unit.
CommitFail ==
    /\ pc = "commit"
    /\ emitted' = {LogErr, Increment("errors", 1)}
    /\ pc' = "gen_next"
    /\ passLog' = [passLog EXCEPT ![Len(passLog)].what = "failed"]
    /\ UNCHANGED <<envVars, throttleVars, outcome, loopVars, genVars>>
    /\ UNCHANGED <<createTimes, windowCreates, secondCommits, lastCommitSecond, passQuiet>>
    /\ delivered' = delivered + unit.datapoints
    /\ UNCHANGED <<svcVars, missed, releases, passEnd, createCalled>>

\* Line 148: time.sleep(int(t2 + 1) - t2) ends in a later second than t2.
RateSleep ==
    /\ pc = "rate_sleep"
    /\ \E t \in NotBefore(lastSecond + 1) : now' = t
    /\ pc' = "gen_next"
    /\ UNCHANGED <<cache, toArrive, fileExists, stateBound, schemas, maxCreates>>
    /\ UNCHANGED <<throttleVars, outcome, loopVars, genVars, histVars>>
    /\ emitted' = {}
    /\ UNCHANGED auxVars

\* Lines 151-152 after a pass that yielded a unit: no sleep.
PassDone ==
    /\ pc = "pass_end"
    /\ dataWritten
    /\ pc' = "top"
    /\ UNCHANGED <<envVars, throttleVars, outcome, loopVars, genVars, histVars>>
    /\ emitted' = {}
    /\ passEnd' = "no sleep"
    /\ UNCHANGED <<svcVars, missed, releases, delivered, createCalled>>

\* Lines 151-152 after a pass that yielded nothing: time.sleep(0.1).
IdleSleep ==
    /\ pc = "pass_end"
    /\ ~dataWritten
    /\ \E t \in NotBefore(now) : now' = t
    /\ pc' = "top"
    /\ UNCHANGED <<cache, toArrive, fileExists, stateBound, schemas, maxCreates>>
    /\ UNCHANGED <<throttleVars, outcome, loopVars, genVars, histVars>>
    /\ emitted' = {}
    /\ passEnd' = "slept"
    /\ UNCHANGED <<svcVars, missed, releases, delivered, createCalled>>

\* Line 174: time.sleep(1), then the while loop of writeForever again.
WriteForeverSleep ==
    /\ pc = "wf_sleep"
    /\ \E t \in NotBefore(now + 1) : now' = t
    /\ pc' = "wf_loop"
    /\ UNCHANGED <<cache, toArrive, fileExists, stateBound, schemas, maxCreates>>
    /\ UNCHANGED <<throttleVars, outcome, loopVars, genVars, histVars>>
    /\ emitted' = {}
    /\ UNCHANGED auxVars

\* -------------------------------------------------------------------- Next
Produce == \E m \in Metrics : Store(m)

Generator ==
    \/ GenStart
    \/ GenDrop
    \/ GenDropContended
    \/ GenContention
    \/ GenYield
    \/ GenExhausted

Drain ==
    \/ WriteForeverCall
    \/ WriteForeverExit
    \/ LoopEnter
    \/ LoopReturn
    \/ CreateOk
    \/ CreateFail
    \/ CommitOk
    \/ CommitFail
    \/ RateSleep
    \/ PassDone
    \/ IdleSleep
    \/ WriteForeverSleep

Next ==
    \/ Produce
    \/ ReactorStop
    \/ ReloadOk
    \/ ReloadFail
    \/ Generator
    \/ GenStartNameError
    \/ PolicyMiss
    \/ Drain

Spec == Init /\ [][Next]_vars

\* The runs in which `state` resolves, every metric has a schema that is never
\* reloaded, no file exists at the start, the creation limit is ManyCreates, no
\* commit fails and no store collides with a pop.
InitCreates ==
    /\ InitWriter
    /\ toArrive = MaxCreateArrivals
    /\ fileExists = [m \in Metrics |-> FALSE]
    /\ stateBound = TRUE
    /\ schemas = Metrics
    /\ maxCreates = ManyCreates

NextCreates ==
    \/ Produce
    \/ GenStart
    \/ GenDrop
    \/ GenYield
    \/ GenExhausted
    \/ WriteForeverCall
    \/ LoopEnter
    \/ LoopReturn
    \/ CreateOk
    \/ CreateFail
    \/ CommitOk
    \/ RateSleep
    \/ PassDone
    \/ IdleSleep
    \/ WriteForeverSleep

SpecCreates == InitCreates /\ [][NextCreates]_vars

\* The runs in which `state` resolves, every file exists, no write fails, no store
\* collides with a pop, and the producers' side sets state.cacheTooFull when it
\* finds the cache full.
InitPressure ==
    /\ InitWriter
    /\ toArrive = MaxPressureArrivals
    /\ fileExists = [m \in Metrics |-> TRUE]
    /\ stateBound = TRUE
    /\ schemas = Metrics
    /\ maxCreates = FewCreates

NextPressure ==
    \/ Produce
    \/ CacheFull
    \/ GenStart
    \/ GenYield
    \/ GenExhausted
    \/ WriteForeverCall
    \/ LoopEnter
    \/ LoopReturn
    \/ CommitOk
    \/ RateSleep
    \/ PassDone
    \/ WriteForeverSleep

SpecPressure == InitPressure /\ [][NextPressure]_vars

\* ------------------------------------------------------------------ claims
\* Steps of the writer, told by what they leave in the histories.
DroppedNow ==
    /\ Len(passLog') = Len(passLog) + 1
    /\ passLog'[Len(passLog')].what = "dropped"
FailedNow ==
    /\ pc = "commit"
    /\ passLog'[Len(passLog')].what = "failed"
    /\ passLog[Len(passLog)].what = "yielded"
CreateFailedNow ==
    /\ pc = "create"
    /\ windowCreates' = windowCreates + 1
    /\ Increment("creates", 1) \notin emitted'
CacheEmpty == \A m \in Metrics : cache[m] = 0

\* C1 (as stated): any rolling 60-second interval holds at most
\* MAX_CREATES_PER_MINUTE whisper.create calls, that is, any
\* MAX_CREATES_PER_MINUTE + 1 consecutive calls span at least 60 seconds.
C1_RollingBound ==
    Len(createTimes) = maxCreates + 1 =>
        createTimes[Len(createTimes)] - createTimes[1] >= CREATE_WINDOW

\* C1 (amended): between two consecutive resets of lastCreateInterval, which the
\* code makes at least 60 seconds apart, at most MAX_CREATES_PER_MINUTE
\* whisper.create calls occur.
C1_WindowBound ==
    /\ windowCreates <= maxCreates
    /\ lastCreateInterval # 0 => now >= lastCreateInterval

\* C1 witness: a window whose count is used up: creations were made in it and the
\* throttle has just denied a further file-less metric.
C1_Witness ==
    /\ windowCreates = maxCreates - 1
    /\ passLog # <<>>
    /\ passLog[Len(passLog)].what = "dropped"
    /\ passLog[Len(passLog)].points > 0

\* C2 (as stated): within one call of writeCachedDataPoints at most
\* MAX_UPDATES_PER_SECOND commits complete in the same wall-clock second.
C2_RateBound == secondCommits <= MAX_UPDATES_PER_SECOND

\* C3: within a pass the metrics are reached in the order of the snapshot sorted
\* by descending backlog: every metric reached so far is the next one of the
\* sorted snapshot, so a metric with a larger snapshot backlog is reached before
\* one with a smaller, and the sizes of the units yielded never increase.
C3_PassOrder ==
    /\ \A i, j \in DOMAIN passLog : i < j => passLog[i].size >= passLog[j].size
    /\ pc \in {"gen_next", "create", "commit", "rate_sleep", "pass_end"} =>
          /\ Len(passLog) = idx - 1
          /\ Len(passLog) <= Len(metrics)
          /\ \A i \in DOMAIN passLog :
                /\ passLog[i].metric = metrics[i][1]
                /\ passLog[i].size = metrics[i][2]
          /\ \A i \in DOMAIN metrics : \A j \in DOMAIN passLog :
                metrics[i][2] > passLog[j].size => i < j

\* C3 witness: a pass has reached two metrics of different snapshot backlogs.
C3_Witness ==
    /\ Len(passLog) = 2
    /\ passLog[1].size > passLog[2].size
    /\ passLog[2].what = "committed"

\* C4: writeCachedDataPoints returns normally only from the test at the top of
\* its while loop, and only when that test finds the cache empty.
C4_ReturnsOnlyWhenEmpty ==
    [][(outcome' = "returned" /\ outcome # "returned") =>
          (pc = "top" /\ \A m \in Metrics : cache[m] = 0)]_vars

\* C4 witness: the call has returned after a pass during which producers stored.
C4_Witness ==
    /\ outcome = "returned"
    /\ passLog # <<>>
    /\ ~passQuiet

\* C5 (as stated): once the producers have stopped, a call of
\* writeCachedDataPoints ends only with the queue empty.
C5_EndsDrained ==
    [][(toArrive = 0 /\ pc # "wf_sleep" /\ pc' = "wf_sleep") => CacheEmpty']_vars

\* C6 (as stated): a pass over a queue of metrics whose files exist, with no
\* producer activity and no failed write, leaves every backlog empty.
C6_HappyPass ==
    (/\ pc = "pass_end" \/ (pc = "wf_sleep" /\ outcome # "returned")
     /\ passQuiet
     /\ \A i \in DOMAIN passLog : passLog[i].existed /\ passLog[i].what # "failed")
    => CacheEmpty

C8_DropLogged ==
    [][DroppedNow =>
          \E c \in emitted' : c.call \in {"log.msg", "log.creates", "log.updates"}]_vars

\* C8 (amended): a denial by the creation throttle is silent: the step that drops
\* the backlog makes no log call and no instrumentation call.
C8_DropSilent == [][DroppedNow => emitted' = {}]_vars

\* C8 witness: a backlog was just dropped and nothing was logged.
C8_Witness ==
    /\ pc = "gen_next"
    /\ passLog # <<>>
    /\ passLog[Len(passLog)].what = "dropped"
    /\ passLog[Len(passLog)].points > 0
    /\ emitted = {}

\* C9: when whisper.update_many raises, there is one log.err and one increment
\* of 'errors' by 1 and no other call (committedPoints is not touched), the
\* cache is left as it is (the batch is not put back), and the pass goes on with
\* the generator's next metric inside the same call.
C9_CommitFailure ==
    [][FailedNow =>
          /\ emitted' = {LogErr, Increment("errors", 1)}
          /\ cache' = cache
          /\ pc' = "gen_next"
          /\ outcome' = outcome
          /\ metrics' = metrics
          /\ idx' = idx]_vars

\* C9 witness: a commit has just failed and the generator is to go on.
C9_Witness ==
    /\ pc = "gen_next"
    /\ passLog # <<>>
    /\ passLog[Len(passLog)].what = "failed"
    /\ emitted = {LogErr, Increment("errors", 1)}

\* C10 (as stated): a failure while creating the file is logged and counted in
\* 'errors', and the pass goes on with the next unit.
C10_CreateFailureHandled ==
    [][CreateFailedNow =>
          /\ LogErr \in emitted'
          /\ Increment("errors", 1) \in emitted'
          /\ pc' = "gen_next"
          /\ outcome' = outcome]_vars

\* More steps of the writer, told by the variables they change.
MissNow == pc = "create" /\ outcome' = "NoSchema"
SkippedNow ==
    /\ Len(passLog') = Len(passLog) + 1
    /\ passLog'[Len(passLog')].what = "skipped"
CreateCalledNow == pc = "create" /\ windowCreates' = windowCreates + 1
ReloadFailedNow ==
    /\ emitted' # emitted
    /\ LogMsg("Failed to reload storage schemas") \in emitted'
\* Datapoints of the unit the drain loop holds between the yield and the commit.
InFlight == IF pc \in {"create", "commit"} THEN unit.datapoints ELSE 0

\* C11: when the yielded unit needs a file and no schema matches, the call raises:
\* no file is made, whisper.create and whisper.update_many are not called;
\* writeForever logs the error, sleeps at least a second and calls
\* writeCachedDataPoints again; the thread ends only with reactor.running false,
\* from the test of its while loop.
C11_RestartAfterMiss ==
    [][/\ (pc = "create" /\ unit.metric \notin schemas /\ pc' # pc) =>
              /\ pc' = "wf_sleep"
              /\ outcome' = "NoSchema"
              /\ LogErr \in emitted'
              /\ fileExists' = fileExists
              /\ createCalled' = createCalled
              /\ delivered' = delivered
       /\ (pc = "wf_sleep" /\ pc' # pc) => (pc' = "wf_loop" /\ now' >= now + 1)
       /\ (pc = "wf_loop" /\ running /\ pc' # pc) => pc' = "top"
       /\ pc' = "done" => (~running' /\ pc \in {"wf_loop", "done"})]_vars

\* C11 witness: writeCachedDataPoints has been called again after a pass that was
\* aborted for want of a schema.
C11_Witness ==
    /\ pc = "top"
    /\ outcome = "none"
    /\ running
    /\ missed.metric # ""
    /\ passLog # <<>>
    /\ passLog[Len(passLog)].what = "unmatched"

\* C12 (as stated): once a pass was aborted for want of a schema for d, and as long
\* as no reload has made a schema match d, no later call of writeCachedDataPoints
\* returns normally.
C12_MissPersists ==
    [][(missed.metric # "" /\ outcome' = "returned") => outcome = "returned"]_vars

\* C12 (amended): the aborted unit's batch is gone from the cache; as long as no
\* schema matches d, d has no file, and every time d is yielded again the call
\* raises the same error again; a pass that ends without raising is one in
\* which d was not yielded.
C12_MissRepeats ==
    [][/\ missed'.metric # "" =>
              (missed'.metric \notin schemas' /\ ~fileExists'[missed'.metric])
       /\ (pc = "create" /\ unit.metric = missed.metric /\ pc' # pc) =>
              /\ pc' = "wf_sleep"
              /\ outcome' = "NoSchema"
              /\ missed' = [metric |-> unit.metric, times |-> 2]
              /\ cache' = cache
       /\ (missed.metric # "" /\ pc = "gen_next" /\ pc' = "pass_end") =>
              \A i \in DOMAIN passLog :
                 passLog[i].metric = missed.metric =>
                    passLog[i].what \in {"dropped", "skipped"}]_vars

\* C12 witness: a second pass has been aborted for the same metric.
C12_Witness ==
    /\ pc = "wf_sleep"
    /\ outcome = "NoSchema"
    /\ missed.times = 2

C14_ReloadFailure ==
    [][/\ ReloadFailedNow =>
              /\ schemas' = schemas
              /\ LogErr \in emitted'
              /\ pc' = pc
              /\ outcome' = outcome
              /\ running' = running
       /\ schemas' \in SchemaSets
       /\ (pc = "create" /\ pc' = "commit") => unit.metric \in schemas
       /\ MissNow => unit.metric \notin schemas]_vars

\* C14 witness: a reload has just failed while the drain loop holds a unit whose
\* schema is still to be looked up.
C14_Witness ==
    /\ pc = "create"
    /\ emitted = {LogMsg("Failed to reload storage schemas"), LogErr}

\* C15 (as stated): the pass ends with the 0.1 s sleep exactly when no unit of the
\* pass was committed.
C15_SleepIffNoSuccess ==
    passEnd # "none" =>
        (passEnd = "slept" <=> \A i \in DOMAIN passLog : passLog[i].what # "committed")

\* C15 (amended): the pass ends with the 0.1 s sleep exactly when the generator
\* yielded no unit during the pass; a pass whose units all failed to commit does
\* not sleep.
C15_SleepIffNoYield ==
    passEnd # "none" =>
        (passEnd = "slept" <=>
            \A i \in DOMAIN passLog : passLog[i].what \in {"dropped", "skipped"})

\* C15 witness: a pass whose every unit failed to commit has ended without the sleep.
C15_Witness ==
    /\ passEnd = "no sleep"
    /\ passLog # <<>>
    /\ \A i \in DOMAIN passLog : passLog[i].what = "failed"

\* C16: the datapoints handed to whisper.update_many, those still in the cache
\* and those in the unit being processed never add up to more than the producers
\* stored, and a pass reaches each metric once.
C16_AtMostOnce ==
    /\ delivered + CacheSize + InFlight <= MaxArrivals - toArrive
    /\ \A i, j \in DOMAIN passLog : i # j => passLog[i].metric # passLog[j].metric

\* C16 witness: every datapoint stored has been delivered, the producers having
\* stored during the pass.
C16_Witness ==
    /\ delivered = MaxArrivals
    /\ ~passQuiet
    /\ Len(passLog) = 2

\* C17: when MetricCache.pop raises KeyError at line 79 the generator logs the
\* contention and nothing else, yields nothing, and goes on with the next metric;
\* 'errors' is not incremented and the call does not end.
C17_ContentionBenign ==
    [][SkippedNow =>
          /\ emitted' = {LogMsg("MetricCache contention")}
          /\ unit' = unit
          /\ dataWritten' = dataWritten
          /\ delivered' = delivered
          /\ idx' = idx + 1
          /\ pc' = "gen_next"
          /\ outcome' = outcome]_vars

\* C17 witness: a metric has just been skipped for contention.
C17_Witness ==
    /\ pc = "gen_next"
    /\ passLog # <<>>
    /\ passLog[Len(passLog)].what = "skipped"
    /\ emitted = {LogMsg("MetricCache contention")}

\* The reference throttle: reset when more than 60 s have elapsed, else allow and
\* count while the count is below the maximum, else deny.
RefResets(t, start) == t - start > CREATE_WINDOW
RefAllows(t, start, count) == RefResets(t, start) \/ count < maxCreates
RefStart(t, start) == IF RefResets(t, start) THEN t ELSE start
RefCount(t, start, count) ==
    IF RefResets(t, start) THEN 1 ELSE IF count < maxCreates THEN count + 1 ELSE count

\* C18 (as stated): at every file-less metric the code's decision and the new
\* (lastCreateInterval, createCount) are those of the reference throttle.
C18_MatchesReference ==
    [][(AtMetric /\ ~fileExists[CurMetric] /\ idx' = idx + 1) =>
          /\ passLog'[Len(passLog')].what # "dropped"
                <=> RefAllows(now', lastCreateInterval, createCount)
          /\ lastCreateInterval' = RefStart(now', lastCreateInterval)
          /\ createCount' = RefCount(now', lastCreateInterval, createCount)]_vars

\* C19 (as stated): whisper.create is called at most once for a metric's path.
C19_CreateOncePerPath ==
    [][CreateCalledNow => unit.metric \notin createCalled]_vars

\* C19 (amended): a metric whose file exists leaves the throttle's globals as they
\* are and is yielded for a commit (or skipped for contention, its backlog
\* kept); whisper.create is called only for a path with no file, so it succeeds
\* at most once per path.
C19_ExistingBypass ==
    [][/\ (AtMetric /\ fileExists[CurMetric] /\ idx' = idx + 1) =>
              /\ lastCreateInterval' = lastCreateInterval
              /\ createCount' = createCount
              /\ createCalled' = createCalled
              /\ \/ pc' = "commit" /\ unit'.datapoints = cache[CurMetric]
                 \/ /\ passLog'[Len(passLog')].what = "skipped"
                    /\ cache'[CurMetric] >= cache[CurMetric]
       /\ CreateCalledNow => ~fileExists[unit.metric]
       /\ \A m \in Metrics : fileExists[m] => fileExists'[m]]_vars

\* C19 witness: a metric whose file the writer made earlier has been yielded
\* straight to the commit.
C19_Witness ==
    /\ pc = "commit"
    /\ unit.dbFileExists
    /\ unit.metric \in createCalled

\* C20 (as stated): at a no-schema abort the cache is left as it is, the metrics
\* after d keep their backlog, and every metric reached before d was committed
\* or counted as a write error: no other backlog was removed without a commit
\* attempt.
C20_OnlyOwnBatch ==
    [][MissNow =>
          /\ cache' = cache
          /\ \A j \in idx..Len(metrics) : cache[metrics[j][1]] >= metrics[j][2]
          /\ \A i \in 1..(Len(passLog) - 1) :
                passLog[i].points > 0 => passLog[i].what \in {"committed", "failed"}]_vars

\* C20 (amended): at a no-schema abort the cache is left as it is (d's batch is
\* not put back), the metrics after d keep their backlog, and every metric
\* reached before d was committed, counted as a write error, skipped for
\* contention, or dropped by the creation throttle.
C20_AbortExtent ==
    [][MissNow =>
          /\ cache' = cache
          /\ passLog[Len(passLog)].metric = unit.metric
          /\ unit.datapoints > 0
          /\ \A j \in idx..Len(metrics) : cache[metrics[j][1]] >= metrics[j][2]
          /\ \A i \in 1..(Len(passLog) - 1) :
                passLog[i].what \in {"committed", "failed", "skipped", "dropped"}
          /\ \A i \in 1..(Len(passLog) - 1) :
                passLog[i].what = "skipped" => passLog[i].points = 0]_vars

\* C20 witness: a pass was aborted for want of a schema after the throttle had
\* dropped the backlog of an earlier metric.
C20_Witness ==
    /\ pc = "wf_sleep"
    /\ outcome = "NoSchema"
    /\ Len(passLog) = 2
    /\ passLog[1].what = "dropped"
    /\ passLog[1].points > 0
    /\ passLog[2].what = "unmatched"

====
